---- MODULE Spec2Model ----
(***************************************************************************)
(* Plugin management API of maubot (maubot/management/api/plugin.py):      *)
(* delete_plugin, reload_plugin and upload_plugin with its two paths,      *)
(* upload_new_plugin and upload_replacement_plugin.                        *)
(*                                                                         *)
(* Strings that the code slices (plugin ids, versions, file names) are     *)
(* sequences of one-character strings, so that str.replace, str.rstrip and *)
(* the "in" test are computed as Python computes them.  Every handler is a *)
(* coroutine: a request is at a position pc, and one action is the code    *)
(* between two awaits.                                                     *)
(***************************************************************************)
EXTENDS Naturals, Sequences, FiniteSets, TLC

VARIABLES
    id_cache,   \* PluginLoader.id_cache: plugin id -> loader object
    files,      \* the plugin directory: path -> content of the file there
    trash,      \* the trash area: set of [path, reason]
    running,    \* the set of started instances
    req,        \* the in-flight requests: slot -> position and locals
    nops        \* number of requests accepted so far

vars == <<id_cache, files, trash, running, req, nops>>

----------------------------------------------------------------------------
(* Bounds *)

MaxOps == 2       \* requests handled in one behaviour
MaxInst == 2      \* instances bound to the plugin x1 at startup

----------------------------------------------------------------------------
(* Strings *)

\* the versions an upload may declare
V1 == <<"1">>
V2 == <<"2">>
Versions == {V1, V2}

\* the plugin ids of requests
X1 == <<"x", "1">>
X2 == <<"x", "2">>
Bump == <<"b", "u", "m", "p">>
Other == <<"o">>
Pids == {X1, X2, Bump, Other}

Ext == <<".", "m", "b", "p">>

UploadDir == "plugins"

\* s[i..] starts with t
OccursAt(s, t, i) ==
    /\ i + Len(t) - 1 <= Len(s)
    /\ \A k \in 1..Len(t) : s[i + k - 1] = t[k]

\* Python: t in s
Contains(s, t) == \E i \in 1..(Len(s) + 1) : OccursAt(s, t, i)

RECURSIVE ReplaceFrom(_, _, _, _)
ReplaceFrom(s, old, new, i) ==
    IF i > Len(s) THEN <<>>
    ELSE IF OccursAt(s, old, i)
         THEN new \o ReplaceFrom(s, old, new, i + Len(old))
         ELSE <<s[i]>> \o ReplaceFrom(s, old, new, i + 1)

RECURSIVE Interleave(_, _, _)
Interleave(s, new, i) ==
    IF i > Len(s) THEN new ELSE new \o <<s[i]>> \o Interleave(s, new, i + 1)

\* Python: s.replace(old, new): every non-overlapping occurrence, left to right
replace(s, old, new) ==
    IF old = <<>> THEN Interleave(s, new, 1) ELSE ReplaceFrom(s, old, new, 1)

RECURSIVE rstrip(_, _)
\* Python: s.rstrip(chars): drops trailing characters that are in the set chars
rstrip(s, chars) ==
    IF s # <<>> /\ s[Len(s)] \in chars
    THEN rstrip(SubSeq(s, 1, Len(s) - 1), chars)
    ELSE s

Chars(s) == {s[i] : i \in 1..Len(s)}

\* os.path: a path is <<directory, file name>>
dirname(path) == path[1]
basename(path) == path[2]
join(dir, filename) == <<dir, filename>>

----------------------------------------------------------------------------
(* Values *)

Slots == {1, 2}

NoId == <<>>
NoPath == <<"", <<>>>>

\* an uploaded payload: the id and version its metadata declares, whether
\* verify_meta accepts it and whether the whole plugin loads
Content(pid, version, meta, ok) ==
    [pid |-> pid, version |-> version, meta |-> meta, ok |-> ok]

NoContent == Content(NoId, <<>>, FALSE, FALSE)

\* a file that open(path, "wb") truncated and a failed write left incomplete
PartialContent == NoContent

Payloads ==
    {Content(p, v, TRUE, ok) : p \in Pids, v \in Versions, ok \in BOOLEAN}
    \cup {NoContent}

EmptyFn == [x \in {} |-> x]

Snapshot == [id_cache |-> id_cache, files |-> files, trash |-> trash,
             running |-> running]

NoSnapshot == [id_cache |-> EmptyFn, files |-> EmptyFn, trash |-> {},
               running |-> {}]

\* e is the exception a handler has caught, detail the exception its error
\* response is built from
Idle == [op |-> "idle", pc |-> "idle", id |-> NoId, content |-> NoContent,
         path |-> NoPath, old_path |-> NoPath, e |-> "none",
         resp |-> "none", detail |-> "none", log |-> <<>>,
         pre |-> NoSnapshot]

Loader(path, version, zip, references) ==
    [path |-> path, version |-> version, loaded |-> TRUE, zip |-> zip,
     references |-> references]

----------------------------------------------------------------------------
(* The loader (maubot/loader): PluginLoader and ZippedPluginLoader *)

\* ZippedPluginLoader.verify_meta(file): the (id, version) of the metadata,
\* or MaubotZipImportError
verify_meta(content) == content.meta

\* whether the plugin definition can be derived for plugin id from the file
\* at path
Loadable(fs, path, id) ==
    /\ path \in DOMAIN fs
    /\ fs[path].meta
    /\ fs[path].ok
    /\ fs[path].pid = id

\* plugin.reload(new_path): unload, rebind to new_path, load again; the
\* version is the one of the definition that loaded
reload(cache, fs, id, new_path) ==
    [cache EXCEPT ![id] =
        [@ EXCEPT !.path = new_path,
                  !.loaded = Loadable(fs, new_path, id),
                  !.version = IF Loadable(fs, new_path, id)
                              THEN fs[new_path].version ELSE @]]

\* plugin.stop_instances(): stop every instance bound to the plugin
stop_instances(run, cache, id) == run \ cache[id].references

\* plugin.start_instances(): start every instance bound to the plugin
start_instances(run, cache, id) == run \cup cache[id].references

\* ZippedPluginLoader.get(path): load the definition at path and register it
\* under its id, with no instances
get(cache, fs, path) ==
    [p \in DOMAIN cache \cup {fs[path].pid} |->
        IF p = fs[path].pid
        THEN Loader(path, fs[path].version, TRUE, {})
        ELSE cache[p]]

\* ZippedPluginLoader.trash(path, reason): move the file to the trash area;
\* moved says whether the move went through (a failure is logged, not raised)
Trashed(fs, path, moved) == moved /\ path \in DOMAIN fs

TrashFiles(fs, path, moved) ==
    IF Trashed(fs, path, moved)
    THEN [p \in DOMAIN fs \ {path} |-> fs[p]]
    ELSE fs

TrashArea(fs, tr, path, reason, moved) ==
    IF Trashed(fs, path, moved)
    THEN tr \cup {[path |-> path, reason |-> reason]}
    ELSE tr

TrashEvent(fs, path, moved) ==
    IF Trashed(fs, path, moved) THEN "trash" ELSE "trash_failed"

\* plugin.delete(): unload and drop the loader from the caches
delete(cache, id) == [p \in DOMAIN cache \ {id} |-> cache[p]]

----------------------------------------------------------------------------
(* The file system *)

WriteOutcomes == {"ok", "open_fails", "write_fails"}

\* with open(path, "wb") as p: p.write(content)
Write(fs, path, content, w) ==
    IF w = "open_fails" THEN fs
    ELSE [p \in DOMAIN fs \cup {path} |->
            IF p = path
            THEN (IF w = "ok" THEN content ELSE PartialContent)
            ELSE fs[p]]

----------------------------------------------------------------------------
(* Startup: the plugins found in the plugin directories are loaded and the  *)
(* instances bound to them are started.                                     *)

Name(pid, version) == pid \o <<"-", "v">> \o version \o Ext

BuiltinPath == <<"builtin", Other>>

\* x1 and bump are zipped plugins found in the upload directory, bump in a
\* file whose name does not carry its version; o is a plugin of another
\* loader; n instances are bound to x1
StartupPids == {X1, Bump, Other}

StartupPath(pid) ==
    CASE pid = Other -> BuiltinPath
      [] pid = Bump -> join(UploadDir, Bump \o Ext)
      [] OTHER -> join(UploadDir, Name(pid, V1))

Init ==
    \E n \in 0..MaxInst :
        /\ id_cache = [p \in StartupPids |->
                        Loader(StartupPath(p), V1, p # Other,
                               IF p = X1 THEN 1..n ELSE {})]
        /\ files = [f \in {StartupPath(p) : p \in StartupPids} |->
                        Content(CHOOSE p \in StartupPids : StartupPath(p) = f,
                                V1, TRUE, TRUE)]
        /\ trash = {}
        /\ running = 1..n
        /\ req = [r \in Slots |-> Idle]
        /\ nops = 0

----------------------------------------------------------------------------
(* Requests *)

Begin(r) ==
    /\ req[r].pc = "idle"
    /\ nops < MaxOps
    /\ nops' = nops + 1

Started(op, id, content) ==
    [Idle EXCEPT !.op = op, !.id = id, !.content = content, !.pre = Snapshot]

At(rec, pc, events) == [rec EXCEPT !.pc = pc, !.log = @ \o events]

Returned(rec, resp, events) ==
    [rec EXCEPT !.pc = "done", !.resp = resp, !.log = @ \o events]

\* except MaubotZipImportError as e
Caught(rec, e) == [rec EXCEPT !.e = e]

\* return plugin_import_error(str(e), ...) or plugin_reload_error(str(e), ...)
ReturnedError(rec, resp, events) ==
    [Returned(rec, resp, events) EXCEPT !.detail = rec.e]

\* the response has been sent
Finish(r) ==
    /\ req[r].pc = "done"
    /\ req' = [req EXCEPT ![r] = Idle]
    /\ UNCHANGED <<id_cache, files, trash, running, nops>>

----------------------------------------------------------------------------
(* delete_plugin *)

\* the guard with an off-by-one: one instance does not block the deletion
InUse_OffByOne(plugin) == Cardinality(plugin.references) > 1

\* len(plugin.references) > 0
InUse(plugin) == Cardinality(plugin.references) > 0

delete_plugin(r, id) ==
    /\ Begin(r)
    /\ req' = [req EXCEPT ![r] =
                IF id \notin DOMAIN id_cache
                THEN Returned(Started("delete", id, NoContent),
                              "ErrPluginNotFound", <<>>)
                ELSE IF InUse(id_cache[id])
                THEN Returned(Started("delete", id, NoContent),
                              "ErrPluginInUse", <<>>)
                ELSE At(Started("delete", id, NoContent), "delete", <<>>)]
    /\ UNCHANGED <<id_cache, files, trash, running>>

\* await plugin.delete(); return RespDeleted
delete_plugin_delete(r, moved) ==
    /\ req[r].pc = "delete"
    /\ LET id == req[r].id
           path == id_cache[id].path
       IN /\ id_cache' = delete(id_cache, id)
          /\ files' = TrashFiles(files, path, moved)
          /\ trash' = TrashArea(files, trash, path, "delete", moved)
    /\ req' = [req EXCEPT ![r] =
                Returned(@, "RespDeleted",
                         <<"delete",
                           TrashEvent(files, id_cache[req[r].id].path, moved)>>)]
    /\ UNCHANGED <<running, nops>>

----------------------------------------------------------------------------
(* reload_plugin *)

reload_plugin(r, id) ==
    /\ Begin(r)
    /\ req' = [req EXCEPT ![r] =
                IF id \notin DOMAIN id_cache
                THEN Returned(Started("reload", id, NoContent),
                              "ErrPluginNotFound", <<>>)
                ELSE At(Started("reload", id, NoContent),
                        "reload_stop_instances", <<>>)]
    /\ UNCHANGED <<id_cache, files, trash, running>>

\* await plugin.stop_instances()
reload_plugin_stop(r) ==
    /\ req[r].pc = "reload_stop_instances"
    /\ running' = stop_instances(running, id_cache, req[r].id)
    /\ req' = [req EXCEPT ![r] = At(@, "reload_reload", <<"stop_instances">>)]
    /\ UNCHANGED <<id_cache, files, trash, nops>>

\* the MaubotZipImportError of plugin.reload() passed over: the handler goes
\* on to start_instances
reload_plugin_reload_unguarded(r) ==
    /\ req[r].pc = "reload_reload"
    /\ LET id == req[r].id
           path == id_cache[id].path
       IN /\ id_cache' = reload(id_cache, files, id, path)
          /\ req' = [req EXCEPT ![r] =
                      IF Loadable(files, path, id)
                      THEN At(@, "reload_start_instances", <<"reload">>)
                      ELSE At(@, "reload_start_instances",
                              <<"reload_failed">>)]
    /\ UNCHANGED <<files, trash, running, nops>>

\* await plugin.reload(), MaubotZipImportError -> plugin_reload_error
reload_plugin_reload(r) ==
    /\ req[r].pc = "reload_reload"
    /\ LET id == req[r].id
           path == id_cache[id].path
       IN /\ id_cache' = reload(id_cache, files, id, path)
          /\ req' = [req EXCEPT ![r] =
                      IF Loadable(files, path, id)
                      THEN At(@, "reload_start_instances", <<"reload">>)
                      ELSE ReturnedError(Caught(@, "reload"),
                                         "plugin_reload_error",
                                         <<"reload_failed">>)]
    /\ UNCHANGED <<files, trash, running, nops>>

\* await plugin.start_instances(); return RespOK
reload_plugin_start(r) ==
    /\ req[r].pc = "reload_start_instances"
    /\ running' = start_instances(running, id_cache, req[r].id)
    /\ req' = [req EXCEPT ![r] = Returned(@, "RespOK", <<"start_instances">>)]
    /\ UNCHANGED <<id_cache, files, trash, nops>>

----------------------------------------------------------------------------
(* upload_plugin *)

\* pid, version = ZippedPluginLoader.verify_meta(file) raises
upload_plugin_invalid(r, content) ==
    /\ Begin(r)
    /\ ~verify_meta(content)
    /\ req' = [req EXCEPT ![r] =
                ReturnedError(Caught(Started("upload", NoId, content),
                                     "verify_meta"),
                              "plugin_import_error",
                              <<"verify_meta_failed">>)]
    /\ UNCHANGED <<id_cache, files, trash, running>>

\* the registered plugin is no ZippedPluginLoader
upload_plugin_unsupported(r, content) ==
    /\ Begin(r)
    /\ verify_meta(content)
    /\ content.pid \in DOMAIN id_cache
    /\ ~id_cache[content.pid].zip
    /\ req' = [req EXCEPT ![r] =
                Returned(Started("upload", content.pid, content),
                         "ErrUnsupportedPluginLoader", <<>>)]
    /\ UNCHANGED <<id_cache, files, trash, running>>

\* upload_new_plugin without the trash call of its except branch
upload_new_plugin_keeps_blob(r, content, w, moved) ==
    /\ Begin(r)
    /\ verify_meta(content)
    /\ content.pid \notin DOMAIN id_cache
    /\ LET path == join(UploadDir, Name(content.pid, content.version))
           written == Write(files, path, content, w)
           rec == [Started("upload_new", content.pid, content)
                       EXCEPT !.path = path]
       IN IF w # "ok"
          THEN /\ files' = written
               /\ req' = [req EXCEPT ![r] =
                           Returned(rec, "OSError", <<"write_failed">>)]
               /\ UNCHANGED <<id_cache, trash>>
          ELSE IF Loadable(written, path, content.pid)
          THEN /\ files' = written
               /\ id_cache' = get(id_cache, written, path)
               /\ req' = [req EXCEPT ![r] =
                           Returned(rec, "RespOK", <<"write", "get">>)]
               /\ UNCHANGED trash
          ELSE /\ files' = written
               /\ req' = [req EXCEPT ![r] =
                           ReturnedError(Caught(rec, "get"),
                                         "plugin_import_error",
                                         <<"write", "get_failed">>)]
               /\ UNCHANGED <<id_cache, trash>>
    /\ UNCHANGED running

\* upload_new_plugin(content, pid, version): no await in it, so it runs to
\* its return in one step
upload_new_plugin(r, content, w, moved) ==
    /\ Begin(r)
    /\ verify_meta(content)
    /\ content.pid \notin DOMAIN id_cache
    /\ LET path == join(UploadDir, Name(content.pid, content.version))
           written == Write(files, path, content, w)
           rec == [Started("upload_new", content.pid, content)
                       EXCEPT !.path = path]
       IN IF w # "ok"
          THEN /\ files' = written
               /\ req' = [req EXCEPT ![r] =
                           Returned(rec, "OSError", <<"write_failed">>)]
               /\ UNCHANGED <<id_cache, trash>>
          ELSE IF Loadable(written, path, content.pid)
          THEN /\ files' = written
               /\ id_cache' = get(id_cache, written, path)
               /\ req' = [req EXCEPT ![r] =
                           Returned(rec, "RespOK", <<"write", "get">>)]
               /\ UNCHANGED trash
          ELSE /\ files' = TrashFiles(written, path, moved)
               /\ trash' = TrashArea(written, trash, path, "error", moved)
               /\ req' = [req EXCEPT ![r] =
                           ReturnedError(Caught(rec, "get"),
                                         "plugin_import_error",
                                         <<"write", "get_failed",
                                           TrashEvent(written, path, moved)>>)]
               /\ UNCHANGED id_cache
    /\ UNCHANGED running

\* the file name upload_replacement_plugin derives for the new version
ReplacementName(filename, version, new_version) ==
    IF Contains(filename, version)
    THEN replace(filename, version, new_version)
    ELSE rstrip(filename, Chars(Ext)) \o <<"-", "v">> \o new_version \o Ext

ReplacementPath(plugin, new_version) ==
    join(dirname(plugin.path),
         ReplacementName(basename(plugin.path), plugin.version, new_version))

\* the replacement path taken without the isinstance test of upload_plugin
upload_replacement_plugin_any_loader(r, content, w) ==
    /\ Begin(r)
    /\ verify_meta(content)
    /\ content.pid \in DOMAIN id_cache
    /\ LET plugin == id_cache[content.pid]
           path == ReplacementPath(plugin, content.version)
           rec == [Started("upload_replacement", content.pid, content)
                       EXCEPT !.path = path, !.old_path = plugin.path]
       IN /\ files' = Write(files, path, content, w)
          /\ req' = [req EXCEPT ![r] =
                      IF w # "ok"
                      THEN Returned(rec, "OSError", <<"write_failed">>)
                      ELSE At(rec, "stop_instances", <<"write">>)]
    /\ UNCHANGED <<id_cache, trash, running>>

\* upload_replacement_plugin(plugin, content, new_version) up to its first
\* await: derive the path and write the file
upload_replacement_plugin(r, content, w) ==
    /\ Begin(r)
    /\ verify_meta(content)
    /\ content.pid \in DOMAIN id_cache
    /\ id_cache[content.pid].zip
    /\ LET plugin == id_cache[content.pid]
           path == ReplacementPath(plugin, content.version)
           rec == [Started("upload_replacement", content.pid, content)
                       EXCEPT !.path = path, !.old_path = plugin.path]
       IN /\ files' = Write(files, path, content, w)
          /\ req' = [req EXCEPT ![r] =
                      IF w # "ok"
                      THEN Returned(rec, "OSError", <<"write_failed">>)
                      ELSE At(rec, "stop_instances", <<"write">>)]
    /\ UNCHANGED <<id_cache, trash, running>>

\* the await of stop_instances left out: the instances keep running
replacement_stop_skipped(r) ==
    /\ req[r].pc = "stop_instances"
    /\ req' = [req EXCEPT ![r] = At(@, "reload", <<"stop_instances">>)]
    /\ UNCHANGED <<id_cache, files, trash, running, nops>>

\* await plugin.stop_instances()
replacement_stop(r) ==
    /\ req[r].pc = "stop_instances"
    /\ running' = stop_instances(running, id_cache, req[r].id)
    /\ req' = [req EXCEPT ![r] = At(@, "reload", <<"stop_instances">>)]
    /\ UNCHANGED <<id_cache, files, trash, nops>>

\* the old blob trashed right after the reload, before start_instances
replacement_reload_trash_first(r) ==
    /\ req[r].pc = "reload"
    /\ id_cache' = reload(id_cache, files, req[r].id, req[r].path)
    /\ files' = TrashFiles(files, req[r].old_path, TRUE)
    /\ trash' = TrashArea(files, trash, req[r].old_path, "update", TRUE)
    /\ req' = [req EXCEPT ![r] =
                IF Loadable(files, req[r].path, req[r].id)
                THEN At(@, "start_instances",
                        <<"reload", TrashEvent(files, req[r].old_path, TRUE)>>)
                ELSE At(Caught(@, "reload_new_path"), "undo",
                        <<"reload_failed",
                          TrashEvent(files, req[r].old_path, TRUE)>>)]
    /\ UNCHANGED <<running, nops>>

\* await plugin.reload(new_path=path)
replacement_reload(r) ==
    /\ req[r].pc = "reload"
    /\ id_cache' = reload(id_cache, files, req[r].id, req[r].path)
    /\ req' = [req EXCEPT ![r] =
                IF Loadable(files, req[r].path, req[r].id)
                THEN At(@, "start_instances", <<"reload">>)
                ELSE At(Caught(@, "reload_new_path"), "undo",
                        <<"reload_failed">>)]
    /\ UNCHANGED <<files, trash, running, nops>>

\* the undo also trashes the blob that failed to load, as upload_new_plugin
\* does
replacement_undo_trashes_new(r) ==
    /\ req[r].pc = "undo"
    /\ id_cache' = reload(id_cache, files, req[r].id, req[r].old_path)
    /\ files' = TrashFiles(files, req[r].path, TRUE)
    /\ trash' = TrashArea(files, trash, req[r].path, "error", TRUE)
    /\ req' = [req EXCEPT ![r] =
                IF Loadable(files, req[r].old_path, req[r].id)
                THEN At(@, "undo_start_instances", <<"undo">>)
                ELSE ReturnedError(@, "plugin_import_error",
                                   <<"undo_failed">>)]
    /\ UNCHANGED <<running, nops>>

\* the undo's own MaubotZipImportError rebinds e and is what gets reported
replacement_undo_rebinds_e(r) ==
    /\ req[r].pc = "undo"
    /\ id_cache' = reload(id_cache, files, req[r].id, req[r].old_path)
    /\ req' = [req EXCEPT ![r] =
                IF Loadable(files, req[r].old_path, req[r].id)
                THEN At(@, "undo_start_instances", <<"undo">>)
                ELSE ReturnedError(Caught(@, "reload_old_path"),
                                   "plugin_import_error", <<"undo_failed">>)]
    /\ UNCHANGED <<files, trash, running, nops>>

\* except MaubotZipImportError: await plugin.reload(new_path=old_path);
\* a second MaubotZipImportError is passed over
replacement_undo(r) ==
    /\ req[r].pc = "undo"
    /\ id_cache' = reload(id_cache, files, req[r].id, req[r].old_path)
    /\ req' = [req EXCEPT ![r] =
                IF Loadable(files, req[r].old_path, req[r].id)
                THEN At(@, "undo_start_instances", <<"undo">>)
                ELSE ReturnedError(@, "plugin_import_error",
                                   <<"undo_failed">>)]
    /\ UNCHANGED <<files, trash, running, nops>>

\* await plugin.start_instances() of the undo, then plugin_import_error
replacement_undo_start(r) ==
    /\ req[r].pc = "undo_start_instances"
    /\ running' = start_instances(running, id_cache, req[r].id)
    /\ req' = [req EXCEPT ![r] =
                ReturnedError(@, "plugin_import_error",
                              <<"start_instances">>)]
    /\ UNCHANGED <<id_cache, files, trash, nops>>

\* await plugin.start_instances() after the new file loaded
replacement_start(r) ==
    /\ req[r].pc = "start_instances"
    /\ running' = start_instances(running, id_cache, req[r].id)
    /\ req' = [req EXCEPT ![r] = At(@, "trash", <<"start_instances">>)]
    /\ UNCHANGED <<id_cache, files, trash, nops>>

\* a trash operation that raises when it cannot move the file
replacement_trash_escalates(r, moved) ==
    /\ req[r].pc = "trash"
    /\ files' = TrashFiles(files, req[r].old_path, moved)
    /\ trash' = TrashArea(files, trash, req[r].old_path, "update", moved)
    /\ req' = [req EXCEPT ![r] =
                Returned(@, IF Trashed(files, req[r].old_path, moved)
                            THEN "RespOK" ELSE "OSError",
                         <<TrashEvent(files, req[r].old_path, moved)>>)]
    /\ UNCHANGED <<id_cache, running, nops>>

\* ZippedPluginLoader.trash(old_path, reason="update"); return RespOK
replacement_trash(r, moved) ==
    /\ req[r].pc = "trash"
    /\ files' = TrashFiles(files, req[r].old_path, moved)
    /\ trash' = TrashArea(files, trash, req[r].old_path, "update", moved)
    /\ req' = [req EXCEPT ![r] =
                Returned(@, "RespOK",
                         <<TrashEvent(files, req[r].old_path, moved)>>)]
    /\ UNCHANGED <<id_cache, running, nops>>

upload_plugin(r, content, w, moved) ==
    \/ upload_plugin_invalid(r, content)
    \/ upload_new_plugin(r, content, w, moved)
    \/ upload_replacement_plugin(r, content, w)
    \/ upload_plugin_unsupported(r, content)

----------------------------------------------------------------------------
(* The specification: the host handles one request at a time *)

Step(r) ==
    \/ \E id \in Pids : delete_plugin(r, id)
    \/ \E moved \in BOOLEAN : delete_plugin_delete(r, moved)
    \/ \E id \in Pids : reload_plugin(r, id)
    \/ reload_plugin_stop(r)
    \/ reload_plugin_reload(r)
    \/ reload_plugin_start(r)
    \/ \E content \in Payloads, w \in WriteOutcomes, moved \in BOOLEAN :
          upload_plugin(r, content, w, moved)
    \/ replacement_stop(r)
    \/ replacement_reload(r)
    \/ replacement_undo(r)
    \/ replacement_undo_start(r)
    \/ replacement_start(r)
    \/ \E moved \in BOOLEAN : replacement_trash(r, moved)
    \/ Finish(r)

Next == Step(1)

Spec == Init /\ [][Next]_vars

----------------------------------------------------------------------------
(* The specification with two requests in flight: the host serializes the   *)
(* requests per plugin id only.                                             *)

InFlight(r) == req[r].pc \notin {"idle", "done"}

\* no two requests in flight have the same target id
SerializedPerId ==
    \A r, s \in Slots :
        (r # s /\ InFlight(r) /\ InFlight(s)) => req[r].id # req[s].id

NextConc == \E r \in Slots : Step(r) /\ SerializedPerId'

SpecConc == Init /\ [][NextConc]_vars

----------------------------------------------------------------------------
(* Reading a request *)

Logged(rec, event) == \E i \in 1..Len(rec.log) : rec.log[i] = event

\* the positions at which rec.log holds event
Positions(rec, event) == {i \in 1..Len(rec.log) : rec.log[i] = event}

\* the fields of the registry the API shows: id -> version, location, instances
Registry(cache) ==
    [p \in DOMAIN cache |->
        [version |-> cache[p].version, path |-> cache[p].path,
         references |-> cache[p].references]]

Locations(cache) == {cache[p].path : p \in DOMAIN cache}

\* a call of upload_replacement_plugin has returned
ReplacementReturned(r) ==
    req[r].pc = "done" /\ req[r].op = "upload_replacement"

\* ... after plugin.reload(new_path=path) raised MaubotZipImportError
ActivationFailed(r) == ReplacementReturned(r) /\ Logged(req[r], "reload_failed")

----------------------------------------------------------------------------
(* C1 *)

\* C1: rollback restores serving state.  When upload_replacement_plugin has
\* returned after the activation (reload at the new path) failed, the
\* plugin is registered at its original location and version, all its
\* instances are started, and the file of its original blob is in the
\* directory with its content unchanged and no trash entry was made for it.
C1_RollbackRestoresServingState ==
    \A r \in Slots :
        ActivationFailed(r) =>
            LET id == req[r].id
                old == req[r].pre.id_cache[id]
            IN /\ id \in DOMAIN id_cache
               /\ id_cache[id].path = old.path
               /\ id_cache[id].version = old.version
               /\ id_cache[id].references = old.references
               /\ old.references \subseteq running
               /\ old.path \in DOMAIN req[r].pre.files =>
                    /\ old.path \in DOMAIN files
                    /\ files[old.path] = req[r].pre.files[old.path]
               /\ \A reason \in {"update", "delete", "error"} :
                    [path |-> old.path, reason |-> reason] \in trash
                        => [path |-> old.path, reason |-> reason]
                               \in req[r].pre.trash

----------------------------------------------------------------------------
(* C2 *)

\* C2: stop/start matching.  On every path of upload_replacement_plugin
\* that called stop_instances, start_instances is called exactly once after
\* the stop and before the return, and no instance of the plugin is stopped
\* when the call returns.
C2_StopMatchedByOneStart ==
    \A r \in Slots :
        (ReplacementReturned(r) /\ Logged(req[r], "stop_instances")) =>
            /\ \E stop \in Positions(req[r], "stop_instances") :
                 Cardinality({i \in Positions(req[r], "start_instances") :
                                i > stop}) = 1
            /\ id_cache[req[r].id].references \subseteq running

----------------------------------------------------------------------------
(* C3 *)

\* C3: registered blob always exists.  In every reachable state every
\* plugin of the registry has a location whose file is in the directory.
C3_RegisteredBlobExists ==
    \A id \in DOMAIN id_cache : id_cache[id].path \in DOMAIN files

----------------------------------------------------------------------------
(* C4 *)

\* the trash operations of the request all moved their file
TrashWentThrough(r) == ~Logged(req[r], "trash_failed")

\* C4: a successful replace preserves the instance set.  When
\* upload_replacement_plugin has returned RespOK (and the trash operation
\* itself went through), the plugin is registered with the uploaded
\* version at the derived location, with the instance set it had before,
\* all of them started; the old blob is in the trash with reason "update"
\* and the new blob is in the directory at the registered location.
C4_ReplacePreservesInstances ==
    \A r \in Slots :
        (ReplacementReturned(r) /\ req[r].resp = "RespOK"
                                /\ TrashWentThrough(r)) =>
            LET id == req[r].id
                old == req[r].pre.id_cache[id]
            IN /\ id \in DOMAIN id_cache
               /\ id_cache[id].version = req[r].content.version
               /\ id_cache[id].path = req[r].path
               /\ id_cache[id].references = old.references
               /\ old.references \subseteq running
               /\ [path |-> old.path, reason |-> "update"] \in trash
               /\ req[r].path \in DOMAIN files
               /\ files[req[r].path] = req[r].content

----------------------------------------------------------------------------
(* C5 *)

\* every file of the upload directory is the blob of a registered plugin
NoOrphan(cache, fs) ==
    \A f \in DOMAIN fs : dirname(f) = UploadDir => f \in Locations(cache)

\* C5: idempotent failure.  When upload_plugin has returned
\* plugin_import_error (the directory held no orphan file before the call
\* and no trash operation of the call failed), the registry (ids, versions,
\* locations, instance sets) and the listing of the plugin directory are
\* what they were before the call.
C5_IdempotentFailure ==
    \A r \in Slots :
        (req[r].pc = "done" /\ req[r].resp = "plugin_import_error"
                            /\ NoOrphan(req[r].pre.id_cache, req[r].pre.files)
                            /\ TrashWentThrough(r)) =>
            /\ Registry(id_cache) = Registry(req[r].pre.id_cache)
            /\ DOMAIN files = DOMAIN req[r].pre.files

----------------------------------------------------------------------------
(* C6 *)

\* the request opened its path for writing
Wrote(r) == Logged(req[r], "write") \/ Logged(req[r], "write_failed")

\* C6: the location a new blob is written to never collides with an active
\* location.  The path an upload writes to (fresh install or replacement)
\* is, at the moment of the write, the location of no plugin in the registry.
C6_WriteNeverCollides ==
    \A r \in Slots :
        (req[r].op \in {"upload_new", "upload_replacement"} /\ Wrote(r)) =>
            req[r].path \notin Locations(req[r].pre.id_cache)

----------------------------------------------------------------------------
(* C7 *)

DeleteReturned(r) == req[r].pc = "done" /\ req[r].op = "delete"

Unchanged(r) ==
    /\ id_cache = req[r].pre.id_cache
    /\ files = req[r].pre.files
    /\ trash = req[r].pre.trash
    /\ running = req[r].pre.running

\* what delete_plugin answers on the three kinds of target, and that it
\* changes nothing unless it answers RespDeleted
DeleteGuards(r) ==
    LET id == req[r].id
        pre == req[r].pre
    IN /\ id \notin DOMAIN pre.id_cache =>
            req[r].resp = "ErrPluginNotFound" /\ Unchanged(r)
       /\ (id \in DOMAIN pre.id_cache /\ pre.id_cache[id].references # {}) =>
            req[r].resp = "ErrPluginInUse" /\ Unchanged(r)
       /\ (id \in DOMAIN pre.id_cache /\ pre.id_cache[id].references = {}) =>
            /\ req[r].resp = "RespDeleted"
            /\ id \notin DOMAIN id_cache
            /\ running = pre.running
            /\ \A p \in DOMAIN pre.id_cache \ {id} :
                 p \in DOMAIN id_cache /\ id_cache[p] = pre.id_cache[p]

\* C7 as claimed: delete_plugin answers ErrPluginInUse on a plugin with
\* instances and ErrPluginNotFound on an unknown id, changing nothing; on a
\* plugin with no instance it answers RespDeleted, the id is gone from the
\* registry and its blob is trashed (out of the directory, in the trash
\* with reason "delete").
C7_DeleteAsClaimed ==
    \A r \in Slots :
        DeleteReturned(r) =>
            /\ DeleteGuards(r)
            /\ req[r].resp = "RespDeleted" =>
                 LET path == req[r].pre.id_cache[req[r].id].path
                 IN /\ path \notin DOMAIN files
                    /\ [path |-> path, reason |-> "delete"] \in trash

\* C7 amended: as claimed, except that the blob is trashed only if it was
\* in the directory and the trash operation went through; otherwise the
\* directory and the trash are left as they were, and RespDeleted is
\* answered all the same.
C7_DeleteBlockedWhileInUse ==
    \A r \in Slots :
        DeleteReturned(r) =>
            /\ DeleteGuards(r)
            /\ req[r].resp = "RespDeleted" =>
                 LET path == req[r].pre.id_cache[req[r].id].path
                     pre == req[r].pre
                 IN IF Logged(req[r], "trash")
                    THEN /\ path \in DOMAIN pre.files
                         /\ DOMAIN files = DOMAIN pre.files \ {path}
                         /\ \A f \in DOMAIN files : files[f] = pre.files[f]
                         /\ trash = pre.trash \cup
                               {[path |-> path, reason |-> "delete"]}
                    ELSE files = pre.files /\ trash = pre.trash

\* delete_plugin has refused to delete a plugin that has instances
C7_Witness_InUse ==
    \E r \in Slots :
        /\ DeleteReturned(r)
        /\ req[r].resp = "ErrPluginInUse"
        /\ req[r].id \in DOMAIN id_cache
        /\ id_cache[req[r].id].references # {}

----------------------------------------------------------------------------
(* C8 *)

\* C8: a persistence failure on the replacement path aborts before the old
\* artifact is touched.  When the write of the new blob failed,
\* stop_instances was not called, the registry entry of the target is
\* unchanged, the old blob is in the directory with its content, no instance
\* changed its run-state, and the caller gets the IOFailure error.
C8_WriteFailureAborts ==
    \A r \in Slots :
        (ReplacementReturned(r) /\ Logged(req[r], "write_failed")) =>
            LET id == req[r].id
                pre == req[r].pre
            IN /\ ~Logged(req[r], "stop_instances")
               /\ id_cache = pre.id_cache
               /\ pre.id_cache[id].path \in DOMAIN pre.files =>
                    /\ pre.id_cache[id].path \in DOMAIN files
                    /\ files[pre.id_cache[id].path]
                         = pre.files[pre.id_cache[id].path]
               /\ running = pre.running
               /\ req[r].resp = "IOFailure"

----------------------------------------------------------------------------
(* C9 *)

\* a call of upload_replacement_plugin is in progress or has just returned
InReplacement(r) == req[r].op = "upload_replacement"

\* the positions at which the next step rebinds the plugin's location
Switching(r) == req[r].pc \in {"reload", "undo"}

\* C9: during a replacement exactly one artifact is active for the id.  At
\* every step of upload_replacement_plugin the target id is in the registry
\* and its entry points at the old or at the new location, and when the
\* entry is about to be switched no instance of the plugin is running.
C9_OneActiveArtifact ==
    \A r \in Slots :
        InReplacement(r) =>
            /\ req[r].id \in DOMAIN id_cache
            /\ id_cache[req[r].id].path \in {req[r].old_path, req[r].path}
            /\ id_cache[req[r].id].references = 
                 req[r].pre.id_cache[req[r].id].references
            /\ Switching(r) =>
                 id_cache[req[r].id].references \cap running = {}

\* the activation failed, the entry points at the new location and the
\* instances of the plugin, which ran before the call, are stopped
C9_Witness_Switching ==
    \E r \in Slots :
        /\ InReplacement(r)
        /\ req[r].pc = "undo"
        /\ req[r].path # req[r].old_path
        /\ id_cache[req[r].id].path = req[r].path
        /\ id_cache[req[r].id].references # {}
        /\ id_cache[req[r].id].references \subseteq req[r].pre.running

----------------------------------------------------------------------------
(* C10 *)

\* C10: a fresh install never touches unrelated identifiers.  When
\* upload_new_plugin has returned for id X, every other id Y registered
\* before the call has the registry entry, the blob and the run-state of
\* its instances that it had before.
C10_FreshInstallFrame ==
    \A r \in Slots :
        (req[r].pc = "done" /\ req[r].op = "upload_new") =>
            LET pre == req[r].pre
            IN \A y \in DOMAIN pre.id_cache \ {req[r].id} :
                 /\ y \in DOMAIN id_cache
                 /\ id_cache[y] = pre.id_cache[y]
                 /\ pre.id_cache[y].path \in DOMAIN pre.files =>
                      /\ pre.id_cache[y].path \in DOMAIN files
                      /\ files[pre.id_cache[y].path]
                           = pre.files[pre.id_cache[y].path]
                 /\ pre.id_cache[y].references \cap running
                      = pre.id_cache[y].references \cap pre.running

----------------------------------------------------------------------------
(* C11 *)

\* result is filename with the occurrence of version at one position, and
\* nothing else, replaced by new_version
OneTokenReplaced(filename, version, new_version, result) ==
    \E i \in 1..Len(filename) :
        /\ OccursAt(filename, version, i)
        /\ result = SubSeq(filename, 1, i - 1) \o new_version
                      \o SubSeq(filename, i + Len(version), Len(filename))

\* filename without its extension ".mbp"
WithoutExt(filename) ==
    IF Len(filename) >= Len(Ext)
       /\ SubSeq(filename, Len(filename) - Len(Ext) + 1, Len(filename)) = Ext
    THEN SubSeq(filename, 1, Len(filename) - Len(Ext))
    ELSE filename

\* C11: filename derivation.  The name upload_replacement_plugin derives is,
\* if the old file name contains the old version, the old file name with
\* exactly that version token replaced by the new version; otherwise it is
\* the old file name without its extension ".mbp", followed by
\* "-v<new_version>" and ".mbp".
C11_FilenameDerivation ==
    \A r \in Slots :
        InReplacement(r) =>
            LET filename == basename(req[r].old_path)
                version == req[r].pre.id_cache[req[r].id].version
                new_version == req[r].content.version
                result == basename(req[r].path)
            IN /\ dirname(req[r].path) = dirname(req[r].old_path)
               /\ IF Contains(filename, version)
                  THEN OneTokenReplaced(filename, version, new_version, result)
                  ELSE result = WithoutExt(filename) \o <<"-", "v">>
                                  \o new_version \o Ext

----------------------------------------------------------------------------
(* C12 *)

\* an upload whose decoded id is registered with a loader that is no
\* ZippedPluginLoader
UploadToOtherLoader(r) ==
    /\ req[r].op \in {"upload", "upload_new", "upload_replacement"}
    /\ verify_meta(req[r].content)
    /\ req[r].content.pid \in DOMAIN req[r].pre.id_cache
    /\ ~req[r].pre.id_cache[req[r].content.pid].zip

\* C12: unsupported loaders are refused before any mutation.  An upload for
\* an id whose registered plugin is not a zipped plugin returns
\* ErrUnsupportedPluginLoader in its first step, having written no file,
\* trashed nothing, called neither stop_instances nor start_instances, and
\* left the registry as it was.
C12_UnsupportedRefused ==
    \A r \in Slots :
        UploadToOtherLoader(r) =>
            /\ req[r].pc = "done"
            /\ req[r].resp = "ErrUnsupportedPluginLoader"
            /\ req[r].log = <<>>
            /\ Unchanged(r)

\* an upload for the plugin o of another loader has been refused
C12_Witness_Refused ==
    \E r \in Slots :
        /\ UploadToOtherLoader(r)
        /\ req[r].resp = "ErrUnsupportedPluginLoader"
        /\ req[r].content.pid = Other
        /\ Other \in DOMAIN id_cache

----------------------------------------------------------------------------
(* C13 *)

ReloadReturned(r) == req[r].pc = "done" /\ req[r].op = "reload"

\* C13: reload.  reload_plugin on an unknown id returns ErrPluginNotFound
\* with no stop, no start and no change.  On a registered id it stops the
\* instances and re-derives the plugin from its current location; location
\* and instance set are what they were; if the re-derivation succeeds,
\* start_instances is called once after it and RespOK is returned; if it
\* fails, plugin_reload_error is returned and start_instances is not called.
C13_Reload ==
    \A r \in Slots :
        ReloadReturned(r) =>
            LET id == req[r].id
                pre == req[r].pre
            IN IF id \notin DOMAIN pre.id_cache
               THEN /\ req[r].resp = "ErrPluginNotFound"
                    /\ req[r].log = <<>>
                    /\ Unchanged(r)
               ELSE /\ id \in DOMAIN id_cache
                    /\ id_cache[id].path = pre.id_cache[id].path
                    /\ id_cache[id].references = pre.id_cache[id].references
                    /\ files = pre.files
                    /\ IF Loadable(pre.files, pre.id_cache[id].path, id)
                       THEN /\ req[r].resp = "RespOK"
                            /\ req[r].log = <<"stop_instances", "reload",
                                              "start_instances">>
                            /\ id_cache[id].loaded
                            /\ id_cache[id].references \subseteq running
                       ELSE /\ req[r].resp = "plugin_reload_error"
                            /\ req[r].detail = "reload"
                            /\ req[r].log = <<"stop_instances",
                                              "reload_failed">>
                            /\ id_cache[id].references \cap running = {}

\* a reload of a plugin with instances has failed: its blob is gone
C13_Witness_ReloadFailed ==
    \E r \in Slots :
        /\ ReloadReturned(r)
        /\ req[r].resp = "plugin_reload_error"
        /\ id_cache[req[r].id].references # {}
        /\ id_cache[req[r].id].references \subseteq req[r].pre.running

----------------------------------------------------------------------------
(* C14 *)

IsPrefix(s, t) == Len(s) <= Len(t) /\ SubSeq(t, 1, Len(s)) = s

\* the orders of calls the claim allows in one run
ClaimedRuns ==
    {<<"write_failed">>,
     <<"write", "stop_instances", "reload", "start_instances", "trash">>,
     <<"write", "stop_instances", "reload", "start_instances",
       "trash_failed">>,
     <<"write", "stop_instances", "reload_failed", "undo",
       "start_instances">>,
     <<"write", "stop_instances", "reload_failed", "undo_failed">>}

\* C14: step order of a replacement.  In every run of
\* upload_replacement_plugin the write of the new blob comes before
\* stop_instances, stop_instances before the activation, the activation
\* before start_instances; the trash area and the directory change by a
\* trash operation only after a successful activation and after
\* start_instances, and on no failure path is anything trashed.
C14_StepOrder ==
    \A r \in Slots :
        InReplacement(r) =>
            /\ \E run \in ClaimedRuns : IsPrefix(req[r].log, run)
            /\ (Logged(req[r], "write") /\ ~Logged(req[r], "trash")) =>
                 /\ req[r].path \in DOMAIN files
                 /\ files[req[r].path] = req[r].content
            /\ ~Logged(req[r], "stop_instances") => running = req[r].pre.running
            /\ ~(Logged(req[r], "reload") \/ Logged(req[r], "reload_failed")) =>
                 id_cache = req[r].pre.id_cache
            /\ ~Logged(req[r], "trash") =>
                 /\ trash = req[r].pre.trash
                 /\ DOMAIN req[r].pre.files \subseteq DOMAIN files
            /\ Logged(req[r], "trash") =>
                 /\ req[r].resp = "RespOK"
                 /\ id_cache[req[r].id].references \subseteq running

\* a replacement has run to its end and trashed the old blob
C14_Witness_Trashed ==
    \E r \in Slots :
        /\ ReplacementReturned(r)
        /\ req[r].log = <<"write", "stop_instances", "reload",
                          "start_instances", "trash">>
        /\ [path |-> req[r].old_path, reason |-> "update"] \in trash
        /\ req[r].path # req[r].old_path

----------------------------------------------------------------------------
(* C15 *)

\* the reload at the new path and the reload back at the old path both raised
UndoFailed(r) == ReplacementReturned(r) /\ Logged(req[r], "undo_failed")

\* C15: rollback failure is contained.  When the activation at the new path
\* fails and the undo fails too, upload_replacement_plugin returns
\* plugin_import_error built from the exception of the activation, and the
\* id is still in the registry with the instance set it had at entry.
C15_RollbackFailureContained ==
    \A r \in Slots :
        UndoFailed(r) =>
            /\ req[r].resp = "plugin_import_error"
            /\ req[r].detail = "reload_new_path"
            /\ req[r].id \in DOMAIN id_cache
            /\ id_cache[req[r].id].references =
                   req[r].pre.id_cache[req[r].id].references

\* both reloads failed for a plugin that has instances
C15_Witness_UndoFailed ==
    \E r \in Slots :
        /\ UndoFailed(r)
        /\ req[r].pre.id_cache[req[r].id].references # {}
        /\ req[r].path # req[r].old_path

----------------------------------------------------------------------------
(* C16 *)

UploadNewReturned(r) == req[r].pc = "done" /\ req[r].op = "upload_new"

\* what both outcomes of the fresh install have in common: no instance is
\* stopped or started, and on success the id is registered as uploaded
FreshInstallCommon(r) ==
    /\ running = req[r].pre.running
    /\ ~Logged(req[r], "stop_instances")
    /\ ~Logged(req[r], "start_instances")
    /\ Logged(req[r], "get") =>
         /\ req[r].resp = "RespOK"
         /\ req[r].id \in DOMAIN id_cache
         /\ id_cache[req[r].id].version = req[r].content.version
         /\ id_cache[req[r].id].path = req[r].path
         /\ id_cache[req[r].id].references = {}
    /\ Logged(req[r], "get_failed") =>
         /\ req[r].resp = "plugin_import_error"
         /\ req[r].id \notin DOMAIN id_cache

\* C16 as stated: when loading the written file fails, the just-written blob
\* is trashed, the id is not registered and plugin_import_error is returned;
\* when it succeeds the id is registered with the uploaded version, the
\* written location and no instances; no instance is stopped or started.
C16_FreshInstallAsClaimed ==
    \A r \in Slots :
        UploadNewReturned(r) =>
            /\ FreshInstallCommon(r)
            /\ Logged(req[r], "get_failed") =>
                 /\ req[r].path \notin DOMAIN files
                 /\ [path |-> req[r].path, reason |-> "error"] \in trash

\* C16 amended: the same, except that the blob is gone from the directory
\* and in the trash area only when the trash operation, which is always
\* attempted, goes through; when it does not, the blob stays where it was
\* written.
C16_FreshInstallOutcome ==
    \A r \in Slots :
        UploadNewReturned(r) =>
            /\ FreshInstallCommon(r)
            /\ Logged(req[r], "get_failed") =>
                 /\ Logged(req[r], "trash") \/ Logged(req[r], "trash_failed")
                 /\ Logged(req[r], "trash") =>
                      /\ req[r].path \notin DOMAIN files
                      /\ [path |-> req[r].path, reason |-> "error"] \in trash
                 /\ Logged(req[r], "trash_failed") =>
                      /\ req[r].path \in DOMAIN files
                      /\ trash = req[r].pre.trash

\* a fresh install whose file did not load, and the blob went to the trash
C16_Witness_FailedInstallTrashed ==
    \E r \in Slots :
        /\ UploadNewReturned(r)
        /\ Logged(req[r], "get_failed")
        /\ Logged(req[r], "trash")
        /\ [path |-> req[r].path, reason |-> "error"] \in trash

----------------------------------------------------------------------------
(* C17 *)

\* C17: a rejected replacement blob stays on disk.  When
\* upload_replacement_plugin has returned after the activation failed, the
\* blob written at the derived location is still at that location, and the
\* call has moved nothing to the trash, whether or not the undo succeeded.
C17_RejectedBlobStays ==
    \A r \in Slots :
        ActivationFailed(r) =>
            /\ req[r].path \in DOMAIN files
            /\ files[req[r].path] = req[r].content
            /\ trash = req[r].pre.trash
            /\ ~Logged(req[r], "trash")
            /\ ~Logged(req[r], "trash_failed")

\* the activation failed, the undo went through, and the rejected blob
\* lies next to the old one
C17_Witness_RejectedBlobBesideOld ==
    \E r \in Slots :
        /\ ActivationFailed(r)
        /\ Logged(req[r], "undo")
        /\ req[r].path # req[r].old_path
        /\ req[r].path \in DOMAIN files
        /\ req[r].old_path \in DOMAIN files

----------------------------------------------------------------------------
(* C18 *)

----------------------------------------------------------------------------
(* C19 *)

\* C19: operations on different identifiers do not interfere.  No step of
\* a replacement of id X, whatever other request is suspended meanwhile,
\* changes the registry entry of another id Y, writes, overwrites or
\* trashes Y's blob, or stops or starts Y's instances.
C19_ReplacementLeavesOthersAlone ==
    [][\A r \in Slots :
          (req'[r] # req[r] /\ req'[r].op = "upload_replacement") =>
              \A y \in DOMAIN id_cache \ {req'[r].id} :
                  /\ y \in DOMAIN id_cache'
                  /\ id_cache'[y] = id_cache[y]
                  /\ id_cache[y].path \in DOMAIN files =>
                       /\ id_cache[y].path \in DOMAIN files'
                       /\ files'[id_cache[y].path] = files[id_cache[y].path]
                  /\ id_cache[y].references \cap running'
                       = id_cache[y].references \cap running]_vars

====
